---- MODULE Spec2Model ----
(***************************************************************************)
(* A model of the LinkedIn post generator's refinement loop: the quality   *)
(* check tools of the PostReviewer (count_characters, check_hashtags,      *)
(* check_emoji_usage, exit_loop) and the SequentialAgent / LoopAgent       *)
(* pipeline that runs PostReviewer and PostRefiner.                        *)
(*                                                                         *)
(* A text is kept run-length encoded: a sequence of runs [c, n], n >= 1    *)
(* characters of class c.  The classes are the ones the two regular        *)
(* expressions of tools.py tell apart:                                     *)
(*   "w"  a word character (\w) outside the emoji ranges      e.g. a, 1, _ *)
(*   "x"  a word character inside the range U+24C2..U+1F251   e.g. a CJK   *)
(*        ideograph: \w matches it and so does the emoji pattern           *)
(*   "e"  a character of the emoji ranges that is not \w      e.g. U+1F680 *)
(*   "h"  the character '#'                                                *)
(*   "s"  any other character                                 e.g. ' ', \n *)
(***************************************************************************)
EXTENDS Integers, Sequences, FiniteSets, TLC

VARIABLES
    pc,            \* the sub-agent the pipeline runs next, or "Done" / "Failed"
    times_looped,  \* LoopAgent's count of completed passes over its sub_agents
    draft,         \* the current post: the last output of generator or refiner
    history,       \* the outputs of PostRefiner so far, oldest first
    review,        \* what the last PostReviewer run did with exit_loop
    reviews,       \* how many times PostReviewer has run
    accepts,       \* how many of those reviews ended with exit_loop = true
    exitedEarly,   \* TRUE when LoopAgent returned because an event escalated
    ran,           \* the agents that have ended, in order, each with how it ended
    posts,         \* the rows of the posts table that save_post_tool inserted
    post_versions, \* the rows of the post_versions table
    cancel,        \* the host's request to cancel the run, if it made one
    conc,          \* runs of root_agent side by side and the module globals
    store,         \* the posts and post_images tables and the last call on them
    callers,       \* the calls of update_user_preference_field under way
    db,            \* the users and user_preferences_history tables, the clock
    svc,           \* the last call of UserPreferenceService and the one before
    call,          \* a direct call of one of the tools: function and arguments
    ret            \* the value that call returned

vars == <<pc, times_looped, draft, history, review, reviews, accepts,
          exitedEarly, ran, posts, post_versions, cancel, conc, store, db, svc, callers, call,
          ret>>

pipelineVars ==
    <<pc, times_looped, draft, history, review, reviews, accepts, exitedEarly,
      ran, posts, post_versions>>

callVars == <<call, ret>>

\* What the host of a run holds, outside the pipeline and the tools
hostVars == <<cancel, conc, store, db, svc, callers>>

\* The database behind UserPreferenceService, and its last calls
serviceVars == <<db, svc, callers>>

---------------------------------------------------------------------------
(* Texts *)

Classes == {"w", "x", "e", "h", "s"}

\* re: \w
IsWord(c) == c \in {"w", "x"}

\* re: the character class of emoji_pattern
IsEmoji(c) == c \in {"e", "x"}

Run(c, n) == [c |-> c, n |-> n]

RECURSIVE Repeat(_, _)
\* k copies of the sequence s, one after the other (Python's s * k)
Repeat(s, k) == IF k = 0 THEN <<>> ELSE s \o Repeat(s, k - 1)

RECURSIVE len(_)
\* len(text): the number of characters
len(t) == IF t = <<>> THEN 0 ELSE Head(t).n + len(Tail(t))

\* len(re.findall(r"#\w+", text)): a match starts at a '#' whose next character
\* is a word character and takes every word character that follows, so each
\* run of '#' that a word run follows holds exactly one match (its last '#').
findall_hashtags(t) ==
    Cardinality({i \in 1..Len(t) :
        t[i].c = "h" /\ i < Len(t) /\ IsWord(t[i + 1].c)})

\* len(emoji_pattern.findall(text)): the pattern is [...]+, so a match is a
\* maximal stretch of emoji-class characters, whatever its length.
findall_emojis(t) ==
    Cardinality({i \in 1..Len(t) :
        IsEmoji(t[i].c) /\ (i = 1 \/ ~IsEmoji(t[i - 1].c))})

---------------------------------------------------------------------------
(* post_reviewer/tools.py: the quality check tools *)

linkedin_max == 3000

linkedin_optimal_min == 1300

linkedin_optimal_max == 1600

\* _get_length_feedback: which of its four sentences it returns
get_length_feedback(char_count, optimal_min, optimal_max, max_limit) ==
    IF char_count > max_limit THEN "over_limit"
    ELSE IF char_count < optimal_min THEN "quite_short"
    ELSE IF char_count > optimal_max THEN "long_acceptable"
    ELSE "optimal"

\* A slip in the lower bound: 1300 characters counted as too short
character_status_of_MinExcluded(char_count) ==
    IF char_count > linkedin_max THEN "too_long"
    ELSE IF char_count <= linkedin_optimal_min THEN "too_short"
    ELSE IF char_count > linkedin_optimal_max THEN "long_but_ok"
    ELSE "good"

\* count_characters: its status
character_status_of(char_count) ==
    IF char_count > linkedin_max THEN "too_long"
    ELSE IF char_count < linkedin_optimal_min THEN "too_short"
    ELSE IF char_count > linkedin_optimal_max THEN "long_but_ok"
    ELSE "good"

\* count_characters(text).  word_count and line_count are left out: they are
\* len() of a split, feed no status and no decision.
count_characters(t) ==
    LET char_count == len(t)
    IN  [raised |-> "none",
         character_count |-> char_count,
         status |-> character_status_of(char_count),
         linkedin_max |-> linkedin_max,
         feedback |-> get_length_feedback(char_count, linkedin_optimal_min,
                                          linkedin_optimal_max, linkedin_max)]

optimal_range == <<3, 5>>

max_recommended == 10

\* _get_hashtag_feedback: which of its four sentences it returns
get_hashtag_feedback(count, range, max_rec) ==
    IF count = 0 THEN "none_found"
    ELSE IF count > max_rec THEN "too_many"
    ELSE IF count < range[1] THEN "only_few"
    ELSE "usage_good"

\* A slip in the upper bound: 10 hashtags counted as too many
hashtag_status_of_MaxExcluded(hashtag_count) ==
    IF hashtag_count = 0 THEN "no_hashtags"
    ELSE IF hashtag_count >= max_recommended THEN "too_many"
    ELSE IF hashtag_count < optimal_range[1] THEN "few_hashtags"
    ELSE "good"

\* check_hashtags: its status
hashtag_status_of(hashtag_count) ==
    IF hashtag_count = 0 THEN "no_hashtags"
    ELSE IF hashtag_count > max_recommended THEN "too_many"
    ELSE IF hashtag_count < optimal_range[1] THEN "few_hashtags"
    ELSE "good"

\* check_hashtags(text)
check_hashtags(t) ==
    LET hashtag_count == findall_hashtags(t)
    IN  [raised |-> "none",
         hashtag_count |-> hashtag_count,
         status |-> hashtag_status_of(hashtag_count),
         optimal_range |-> optimal_range,
         max_recommended |-> max_recommended,
         feedback |-> get_hashtag_feedback(hashtag_count, optimal_range,
                                           max_recommended)]

\* Python's a / b * 100 kept exact, as the fraction num / den; a zero divisor
\* raises ZeroDivisionError.  Within the model's sizes the double the code
\* computes compares with 5 and with 0.5 exactly as the fraction does.
Percent(a, b) ==
    IF b = 0 THEN [err |-> TRUE, num |-> 0, den |-> 1]
    ELSE [err |-> FALSE, num |-> a * 100, den |-> b]

\* The density without its test for the empty text
emoji_density_Unguarded(emoji_count, char_count) ==
    Percent(emoji_count, char_count)

\* (emoji_count / char_count * 100) if char_count > 0 else 0
emoji_density(emoji_count, char_count) ==
    IF char_count > 0 THEN Percent(emoji_count, char_count)
    ELSE [err |-> FALSE, num |-> 0, den |-> 1]

\* round(d, 2), in hundredths.  Off a tie it is the nearest hundredth.  On a
\* tie (d is exactly k.xx5) Python rounds the double it holds, which lies on
\* either side of the tie: tie says which ("down" or "up").
round2(d, tie) ==
    LET q == (d.num * 100) \div d.den
        r == (d.num * 100) % d.den
    IN  IF 2 * r < d.den THEN q
        ELSE IF 2 * r > d.den THEN q + 1
        ELSE IF tie = "down" THEN q ELSE q + 1

Ties == {"down", "up"}

\* _get_emoji_feedback: which of its four sentences it returns
get_emoji_feedback(count, d) ==
    IF count = 0 THEN "none_found"
    ELSE IF d.num > 5 * d.den THEN "high_density"
    ELSE IF 2 * d.num < d.den THEN "low_usage"
    ELSE "balanced"

\* A slip in the upper bound: a density of exactly 5 counted as too many
emoji_status_of_FiveExcluded(emoji_count, density) ==
    IF emoji_count = 0 THEN "no_emojis"
    ELSE IF density.num >= 5 * density.den THEN "too_many"
    ELSE IF 2 * density.num < density.den THEN "few_emojis"
    ELSE "good"

\* check_emoji_usage: its status (density > 5, density < 0.5)
emoji_status_of(emoji_count, density) ==
    IF emoji_count = 0 THEN "no_emojis"
    ELSE IF density.num > 5 * density.den THEN "too_many"
    ELSE IF 2 * density.num < density.den THEN "few_emojis"
    ELSE "good"

\* check_emoji_usage(text); emoji_density_percent is in hundredths of a percent
check_emoji_usage(t, tie) ==
    LET emoji_count == findall_emojis(t)
        char_count == len(t)
        density == emoji_density(emoji_count, char_count)
    IN  IF density.err
        THEN [raised |-> "ZeroDivisionError"]
        ELSE [raised |-> "none",
              emoji_count |-> emoji_count,
              emoji_density_percent |-> round2(density, tie),
              status |-> emoji_status_of(emoji_count, density),
              feedback |-> get_emoji_feedback(emoji_count, density)]

\* The value of a parameter the caller left out
Omitted == "<omitted>"

Default(v, d) == IF v = Omitted THEN d ELSE v

\* The list with one of its entries forgotten
acceptable_statuses_NoLongButOk == {"good", "few_hashtags", "few_emojis"}

acceptable_statuses == {"good", "long_but_ok", "few_hashtags", "few_emojis"}

\* exit_loop(character_status="good", hashtag_status="good",
\*           emoji_status="good", reason="", post_text="")
exit_loop(character_status, hashtag_status, emoji_status, reason) ==
    LET cs == Default(character_status, "good")
        hs == Default(hashtag_status, "good")
        es == Default(emoji_status, "good")
        rs == Default(reason, "")
        should_exit ==
            /\ cs \in acceptable_statuses
            /\ hs \in acceptable_statuses
            /\ es \in acceptable_statuses
    IN  [raised |-> "none",
         exit_loop |-> should_exit,
         reason |-> IF rs = "" THEN "Post quality is acceptable" ELSE rs,
         character_status |-> cs,
         hashtag_status |-> hs,
         emoji_status |-> es,
         message |-> IF should_exit THEN "Refinement loop will exit"
                     ELSE "Continue refinement"]

\* ---------------------------------------------------------------------
\* Python values, dictionaries and their JSON text
\* ---------------------------------------------------------------------

\* A str and a list of str
PyStr(x) == [type |-> "str", val |-> <<x>>]

PyList(l) == [type |-> "list", val |-> l]

\* None, and a dict such as post_length, whose items are held apart from
\* the strings of a str or a list
PyNone == [type |-> "None", val |-> <<>>]

PyDict(d) == [type |-> "dict", val |-> <<>>, items |-> d]

\* A dict is the sequence of its <<key, value>> items in insertion order
DictHas(d, k) == \E i \in 1..Len(d) : d[i][1] = k

DictKeys(d) == {d[i][1] : i \in 1..Len(d)}

\* d[k], for a key of d
DictGet(d, k) == d[CHOOSE i \in 1..Len(d) : d[i][1] = k][2]

\* d[k] = v
DictSet(d, k, v) ==
    IF DictHas(d, k)
    THEN [i \in 1..Len(d) |-> IF d[i][1] = k THEN <<k, v>> ELSE d[i]]
    ELSE Append(d, <<k, v>>)

\* json.dumps of a value: a str gives a string, a list gives an array,
\* None gives null and a dict of numbers gives an object
json_dumps_value(v) ==
    CASE v.type = "str" -> [kind |-> "string", items |-> v.val]
      [] v.type = "list" -> [kind |-> "array", items |-> v.val]
      [] v.type = "None" -> [kind |-> "null", items |-> <<>>]
      [] v.type = "dict" -> [kind |-> "object", items |-> <<>>,
                             members |-> v.items]

\* json.loads of a value: a string gives a str, an array gives a list,
\* null gives None and an object gives a dict
json_loads_value(j) ==
    CASE j.kind = "string" -> PyStr(j.items[1])
      [] j.kind = "array" -> PyList(j.items)
      [] j.kind = "null" -> PyNone
      [] j.kind = "object" -> PyDict(j.members)

\* json.dumps of a dict: the object's members in the dict's order
json_dumps(d) == [i \in 1..Len(d) |-> <<d[i][1], json_dumps_value(d[i][2])>>]

RECURSIVE json_loads(_)
\* json.loads of an object: the members are set one after the other
json_loads(text) ==
    IF text = <<>>
    THEN <<>>
    ELSE LET n == Len(text)
         IN  DictSet(json_loads(SubSeq(text, 1, n - 1)),
                     text[n][1], json_loads_value(text[n][2]))

\* A preferences_json column: NULL, or a JSON text
Null == [null |-> TRUE, text |-> <<>>]

JsonText(text) == [null |-> FALSE, text |-> text]

\* User.preferences: the parsed column, {} when it is NULL
preferences(user) ==
    IF ~user.preferences_json.null
    THEN json_loads(user.preferences_json.text)
    ELSE <<>>

\* ---------------------------------------------------------------------
\* DatabaseManager: users and user_preferences_history
\* ---------------------------------------------------------------------

\* The tables after initialize(); ids are the rows' positions (AUTOINCREMENT,
\* no row is deleted here); now is CURRENT_TIMESTAMP, in seconds
EmptyDb == [users |-> <<>>, history |-> <<>>, now |-> 0]

\* What an operation leaves: the database and what it returns
Outcome(d, result) == [db |-> d, result |-> result]

\* DatabaseManager.create_user: preferences_json is NULL for an empty dict
db_create_user(d, prefs) ==
    LET preferences_json == IF prefs # <<>>
                            THEN JsonText(json_dumps(prefs))
                            ELSE Null
    IN  [d EXCEPT !.users = Append(@, [preferences_json |-> preferences_json])]

\* cursor.lastrowid of the insert into users
lastrowid(d) == Len(d.users)

NoUser == [found |-> FALSE, preferences_json |-> Null]

\* DatabaseManager.get_user: the row, or None
get_user(d, user_id) ==
    IF user_id \in 1..Len(d.users)
    THEN [found |-> TRUE, preferences_json |-> d.users[user_id].preferences_json]
    ELSE NoUser

\* DatabaseManager.update_user(user_id, preferences = prefs): True when a
\* row was updated
update_user(d, user_id, prefs) ==
    IF user_id \in 1..Len(d.users)
    THEN Outcome([d EXCEPT !.users[user_id].preferences_json =
                               JsonText(json_dumps(prefs))], TRUE)
    ELSE Outcome(d, FALSE)

\* DatabaseManager.save_preferences_history: one more row, changed_at is
\* the default CURRENT_TIMESTAMP
save_preferences_history(d, user_id, prefs) ==
    [d EXCEPT !.history =
        Append(@, [user_id |-> user_id,
                   preferences_json |-> JsonText(json_dumps(prefs)),
                   changed_at |-> d.now])]

\* The orders in which n rows can come back
RowOrders(n) ==
    {f \in [1..n -> 1..n] : \A i, j \in 1..n : i # j => f[i] # f[j]}

\* DatabaseManager.get_preferences_history: the results the query can
\* give.  The rows of user_id come back ORDER BY changed_at DESC; rows
\* with an equal changed_at come back in an order the query leaves open.
get_preferences_history(d, user_id, limit) ==
    LET rows == SelectSeq(d.history, LAMBDA row : row.user_id = user_id)
        n == Len(rows)
        sorted == {f \in RowOrders(n) :
                      \A i, j \in 1..n :
                          i < j => rows[f[i]].changed_at >= rows[f[j]].changed_at}
        entry(row) == [preferences |->
                           IF ~row.preferences_json.null
                           THEN json_loads(row.preferences_json.text)
                           ELSE <<>>,
                       changed_at |-> row.changed_at]
        m == IF n < limit THEN n ELSE limit
    IN  {[i \in 1..m |-> entry(rows[f[i]])] : f \in sorted}

\* ---------------------------------------------------------------------
\* UserPreferenceService
\* ---------------------------------------------------------------------

\* create_user: the initial preferences go to the history unless empty
create_user(d, prefs) ==
    LET created == db_create_user(d, prefs)
        user_id == lastrowid(created)
    IN  IF prefs # <<>>
        THEN save_preferences_history(created, user_id, prefs)
        ELSE created

\* A service that notes in the history what it was asked to store also
\* when no row was updated
update_user_preferences_HistoryAlways(d, user_id, prefs) ==
    LET updated == update_user(d, user_id, prefs)
    IN  Outcome(save_preferences_history(updated.db, user_id, prefs),
                updated.result)

update_user_preferences(d, user_id, prefs) ==
    IF ~get_user(d, user_id).found
    THEN Outcome(d, FALSE)
    ELSE LET updated == update_user(d, user_id, prefs)
         IN  IF updated.result
             THEN Outcome(save_preferences_history(updated.db, user_id, prefs),
                          TRUE)
             ELSE updated

\* A service that writes the one field alone in place of the preferences
\* it has read
update_user_preference_field_FieldAlone(d, user_id, field, value) ==
    IF ~get_user(d, user_id).found
    THEN Outcome(d, FALSE)
    ELSE update_user_preferences(d, user_id, DictSet(<<>>, field, value))

update_user_preference_field(d, user_id, field, value) ==
    LET user == get_user(d, user_id)
    IN  IF ~user.found
        THEN Outcome(d, FALSE)
        ELSE update_user_preferences(d, user_id,
                                     DictSet(preferences(user), field, value))

\* get_user_preferences: {} when there is no such user
get_user_preferences(d, user_id) ==
    LET user == get_user(d, user_id)
    IN  IF ~user.found THEN <<>> ELSE preferences(user)

set_writing_style(d, user_id, style) ==
    update_user_preference_field(d, user_id, "writing_style", PyStr(style))

set_tone(d, user_id, tone) ==
    update_user_preference_field(d, user_id, "tone", PyStr(tone))

set_topics(d, user_id, topics) ==
    update_user_preference_field(d, user_id, "topics", PyList(topics))

set_industry_template(d, user_id, template) ==
    update_user_preference_field(d, user_id, "industry_template",
                                 PyStr(template))

RECURSIVE DictUpdate(_, _)
\* d.update(other), and {**d, **other}: other's items are set in d in order
DictUpdate(d, other) ==
    IF other = <<>>
    THEN d
    ELSE DictUpdate(DictSet(d, other[1][1], other[1][2]), Tail(other))

get_default_preferences ==
    << <<"writing_style", PyStr("professional")>>,
       <<"post_structure", PyNone>>,
       <<"custom_instructions", PyNone>>,
       <<"tone", PyStr("professional")>>,
       <<"post_length", PyDict(<< <<"min", 100>>, <<"max", 3000>> >>)>>,
       <<"topics", PyList(<<>>)>>,
       <<"industry_template", PyNone>>,
       <<"emoji_usage", PyStr("moderate")>>,
       <<"hashtag_usage", PyStr("moderate")>>,
       <<"sentence_structure", PyStr("mixed")>>,
       <<"opening_hook_style", PyStr("statement")>> >>

\* set_post_length: min_length and max_length are <<>> for None and <<n>>
\* for a number
set_post_length(d, user_id, min_length, max_length) ==
    LET user == get_user(d, user_id)
        current_preferences == preferences(user)
        post_length == IF DictHas(current_preferences, "post_length")
                       THEN DictGet(current_preferences, "post_length").items
                       ELSE <<>>
        with_min == IF min_length # <<>>
                    THEN DictSet(post_length, "min", min_length[1])
                    ELSE post_length
        with_max == IF max_length # <<>>
                    THEN DictSet(with_min, "max", max_length[1])
                    ELSE with_min
    IN  IF ~user.found
        THEN Outcome(d, FALSE)
        ELSE update_user_preferences(d, user_id,
                 DictSet(current_preferences, "post_length", PyDict(with_max)))

\* An initialisation that answers True for a user that is not there
initialize_user_preferences_MissingIsDone(d, user_id) ==
    LET user == get_user(d, user_id)
    IN  IF user.found /\ preferences(user) = <<>>
        THEN update_user_preferences(d, user_id, get_default_preferences)
        ELSE Outcome(d, TRUE)

initialize_user_preferences(d, user_id) ==
    LET user == get_user(d, user_id)
    IN  IF ~user.found
        THEN Outcome(d, FALSE)
        ELSE IF preferences(user) = <<>>
             THEN update_user_preferences(d, user_id, get_default_preferences)
             ELSE Outcome(d, TRUE)

\* A merge that takes the user's post_length as it is
merge_preferences_with_defaults_Shallow(user_preferences) ==
    DictUpdate(get_default_preferences, user_preferences)

merge_preferences_with_defaults(user_preferences) ==
    LET defaults == get_default_preferences
        merged == DictUpdate(defaults, user_preferences)
    IN  IF DictHas(user_preferences, "post_length")
        THEN DictSet(merged, "post_length",
                     PyDict(DictUpdate(
                         DictGet(defaults, "post_length").items,
                         DictGet(user_preferences, "post_length").items)))
        ELSE merged

\* ---------------------------------------------------------------------
\* DatabaseManager: posts and post_images
\* ---------------------------------------------------------------------

\* Python's None, and NULL in a column
None == "<None>"

\* DatabaseManager.create_post: one more row; engagement_score and
\* published_at are NULL
create_post(rows, user_id, content, image_path, status) ==
    Append(rows, [user_id |-> user_id, content |-> content,
                  image_path |-> image_path, status |-> status,
                  engagement_score |-> None, published_at |-> None])

\* DatabaseManager.create_post_image: one more row, linked to post_id
create_post_image(images, post_id, image_path, style, alt_text) ==
    Append(images, [post_id |-> post_id, image_path |-> image_path,
                    style |-> style, alt_text |-> alt_text])

\* A value bound to a placeholder: a column's new value, or the post's id
Bound(x) == [text |-> x, id |-> 0]

BoundId(post_id) == [text |-> "", id |-> post_id]

\* One assignment of the UPDATE's SET list, with a placeholder or without
SetColumn(column, placeholder) == [column |-> column, placeholder |-> placeholder]

\* The SET list and the values that update_post builds, in its order
UpdateOf(arg, column) ==
    IF arg # None THEN <<SetColumn(column, TRUE)>> ELSE <<>>

ValueOf(arg) == IF arg # None THEN <<Bound(arg)>> ELSE <<>>

update_post_values(post_id, content, image_path, status, engagement_score) ==
    ValueOf(content) \o ValueOf(image_path) \o ValueOf(status)
        \o ValueOf(engagement_score)
        \o (IF status = "published" THEN <<BoundId(post_id)>> ELSE <<>>)

update_post_updates(content, image_path, status, engagement_score) ==
    UpdateOf(content, "content") \o UpdateOf(image_path, "image_path")
        \o UpdateOf(status, "status")
        \o UpdateOf(engagement_score, "engagement_score")
        \o (IF status = "published"
            THEN <<SetColumn("published_at", FALSE)>> ELSE <<>>)

\* The placeholders of the SET list, in order
Placeholders(updates) == SelectSeq(updates, LAMBDA u : u.placeholder)

\* The row after UPDATE posts SET updates: each column with a placeholder
\* takes the value bound at the placeholder's position, published_at takes
\* CURRENT_TIMESTAMP
UpdatedRow(row, updates, values) ==
    LET holders == Placeholders(updates)
        NewValue(column, old) ==
            IF \E i \in 1..Len(holders) : holders[i].column = column
            THEN values[CHOOSE i \in 1..Len(holders) :
                            holders[i].column = column].text
            ELSE old
    IN  [user_id |-> row.user_id,
         content |-> NewValue("content", row.content),
         image_path |-> NewValue("image_path", row.image_path),
         status |-> NewValue("status", row.status),
         engagement_score |-> NewValue("engagement_score", row.engagement_score),
         published_at |->
             IF \E i \in 1..Len(updates) : updates[i].column = "published_at"
             THEN "CURRENT_TIMESTAMP" ELSE row.published_at]

\* cursor.execute("UPDATE posts SET ... WHERE id = ?", values): sqlite3
\* raises ProgrammingError unless there is one value for each placeholder
execute_update(rows, updates, values) ==
    LET holders == Len(Placeholders(updates)) + 1
    IN  IF Len(values) # holders
        THEN [raised |-> "ProgrammingError", result |-> FALSE, rows |-> rows]
        ELSE LET id == values[holders].id
             IN  IF id \in 1..Len(rows)
                 THEN [raised |-> "none", result |-> TRUE,
                       rows |-> [rows EXCEPT
                                   ![id] = UpdatedRow(@, updates, values)]]
                 ELSE [raised |-> "none", result |-> FALSE, rows |-> rows]

\* DatabaseManager.update_post
update_post(rows, post_id, content, image_path, status, engagement_score) ==
    LET updates == update_post_updates(content, image_path, status,
                                       engagement_score)
        values == update_post_values(post_id, content, image_path, status,
                                     engagement_score)
    IN  IF updates = <<>>
        THEN [raised |-> "none", result |-> FALSE, rows |-> rows]
        ELSE execute_update(rows, updates, values \o <<BoundId(post_id)>>)

\* save_post_tool of PostFinalizer, on the posts and post_images tables;
\* failing is the set of the database operations that raise in this call
\* (a raising operation is rolled back and leaves no row)
save_post_tool(rows, images, post_content, user_id, image_path, status, failing) ==
    IF "create_post" \in failing
    THEN [raised |-> "none", success |-> FALSE, post_id |-> 0,
          image_saved |-> FALSE, rows |-> rows, images |-> images]
    ELSE LET saved == create_post(rows, user_id, post_content, image_path,
                                  status)
             post_id == Len(saved)
             with_image ==
                 IF image_path \notin {None, ""}
                       /\ "create_post_image" \notin failing
                 THEN create_post_image(images, post_id, image_path,
                                        "professional", "")
                 ELSE images
         IN  [raised |-> "none", success |-> TRUE, post_id |-> post_id,
              image_saved |-> image_path \notin {None, ""},
              rows |-> saved, images |-> with_image]

\* DatabaseManager.create_post_version: the row is inserted with the
\* version_number its caller gives
create_post_version(versions, post_id, version_number, content) ==
    Append(versions, [post_id |-> post_id, version_number |-> version_number,
                      content |-> content])

---------------------------------------------------------------------------
(* The texts and arguments the tools are called with *)

MaxHashtags == 11

MaxEmojiRuns == 3

MaxRuns == 3

\* Lengths of the filler that put a text on either side of each threshold:
\* 1300, 1600 and 3000 characters, and 0.5 % and 5 % of emoji matches.
PadLens == {0, 1, 17, 18, 198, 199, 1299, 1300, 1600, 1601, 3000, 3001}

\* h hashtags "#a ", e emojis each followed by a space, then pad letters
Post(h, e, pad) ==
    Repeat(<<Run("h", 1), Run("w", 1), Run("s", 1)>>, h)
        \o Repeat(<<Run("e", 1), Run("s", 1)>>, e)
        \o (IF pad = 0 THEN <<>> ELSE <<Run("w", pad)>>)

Posts ==
    {Post(h, e, pad) : h \in 0..MaxHashtags, e \in 0..MaxEmojiRuns, pad \in PadLens}

\* Every text of at most MaxRuns runs of one or two characters: "#", "# a",
\* "##a", "a#b", an emoji next to an ideograph, ...
ShortTexts ==
    UNION {[1..k -> {Run(c, n) : c \in Classes, n \in 1..2}] : k \in 0..MaxRuns}

Texts == Posts \cup ShortTexts

CharacterStatuses == {"good", "too_short", "too_long", "long_but_ok"}

HashtagStatuses == {"good", "no_hashtags", "few_hashtags", "too_many"}

EmojiStatuses == {"good", "no_emojis", "few_emojis", "too_many"}

\* What a caller may pass as a status: a status of any axis, some other
\* string, or nothing
StatusArgs ==
    CharacterStatuses \cup HashtagStatuses \cup EmojiStatuses
        \cup {"unknown", Omitted}

ReasonArgs == {"", "All quality checks passed", Omitted}

NoCall == [fn |-> "none"]

\* A post_length with the given items
PostLength(items) == <<"post_length", PyDict(items)>>

\* Preferences as users store them: none, some of the default keys, a key
\* of their own, and a post_length with min, max, both or neither
MergeArgs ==
    { <<>>,
      << <<"writing_style", PyStr("casual")>> >>,
      << <<"topics", PyList(<<"AI">>)>>, <<"post_structure", PyStr("list-based")>> >>,
      << <<"language", PyStr("en")>>, <<"industry_template", PyNone>> >>,
      << PostLength(<<>>) >>,
      << PostLength(<< <<"min", 200>> >>) >>,
      << PostLength(<< <<"max", 1500>> >>), <<"tone", PyStr("analytical")>> >>,
      << <<"emoji_usage", PyStr("none")>>,
         PostLength(<< <<"max", 2000>>, <<"min", 300>> >>) >> }

NoRet == [raised |-> "not_called"]

Calls ==
    {[fn |-> f, text |-> t] :
        f \in {"count_characters", "check_hashtags", "check_emoji_usage"},
        t \in Texts}
    \cup
    {[fn |-> "exit_loop", character_status |-> cs, hashtag_status |-> hs,
      emoji_status |-> es, reason |-> rs] :
        cs \in StatusArgs, hs \in StatusArgs, es \in StatusArgs,
        rs \in ReasonArgs}
    \cup
    {[fn |-> "merge_preferences_with_defaults", user_preferences |-> up] :
        up \in MergeArgs}

---------------------------------------------------------------------------
(* Direct calls of the tools, as test_quality_check_tools makes them *)

CallInit ==
    /\ call \in Calls
    /\ ret = NoRet

Call_count_characters ==
    /\ call.fn = "count_characters"
    /\ ret = NoRet
    /\ ret' = count_characters(call.text)
    /\ UNCHANGED <<call, pipelineVars, hostVars>>

Call_check_hashtags ==
    /\ call.fn = "check_hashtags"
    /\ ret = NoRet
    /\ ret' = check_hashtags(call.text)
    /\ UNCHANGED <<call, pipelineVars, hostVars>>

Call_check_emoji_usage ==
    /\ call.fn = "check_emoji_usage"
    /\ ret = NoRet
    /\ \E tie \in Ties : ret' = check_emoji_usage(call.text, tie)
    /\ UNCHANGED <<call, pipelineVars, hostVars>>

Call_exit_loop ==
    /\ call.fn = "exit_loop"
    /\ ret = NoRet
    /\ ret' = exit_loop(call.character_status, call.hashtag_status,
                        call.emoji_status, call.reason)
    /\ UNCHANGED <<call, pipelineVars, hostVars>>

---------------------------------------------------------------------------
(* linkedin_post_agent/agent.py: the pipeline.                              *)
(* SequentialAgent runs its sub_agents once each, in order; an exception    *)
(* of a sub-agent ends the run.  LoopAgent runs its sub_agents in order,    *)
(* pass after pass; it returns as soon as an event of a sub-agent carries   *)
(* actions.escalate, and after max_iterations passes.                       *)

max_iterations == 5

\* A pipeline that makes the image before it refines the post
sub_agents_ImageBeforeLoop ==
    <<"InputProcessorAgent", "UserPreferenceLoader", "StyleAnalyzerAgent",
      "InitialPostGenerator", "ImageGenerator", "PostRefinementLoop",
      "PostFinalizer">>

\* sub_agents of LinkedInPostGenerationPipeline, the loop's own inlined
sub_agents ==
    <<"InputProcessorAgent", "UserPreferenceLoader", "StyleAnalyzerAgent",
      "InitialPostGenerator", "PostRefinementLoop", "ImageGenerator",
      "PostFinalizer">>

\* sub_agents of PostRefinementLoop
loop_sub_agents == <<"PostReviewer", "PostRefiner">>

LoopAgents == {loop_sub_agents[i] : i \in 1..Len(loop_sub_agents)}

IndexOf(a) == CHOOSE i \in 1..Len(sub_agents) : sub_agents[i] = a

\* The agent that runs after sub-agent a of the pipeline has ended
\* (entering the loop means running its first sub-agent)
NextAgent(a) ==
    LET i == IndexOf(a)
        n == IF i = Len(sub_agents) THEN "Done" ELSE sub_agents[i + 1]
    IN  IF n = "PostRefinementLoop" THEN loop_sub_agents[1] ELSE n

\* The test letting one pass too many through
LoopContinues_OnePassMore(looped) == looped <= max_iterations

\* The test stopping one pass early
LoopContinues_OnePassLess(looped) == looped < max_iterations - 1

\* LoopAgent's test before another pass
LoopContinues(looped) == looped < max_iterations

\* The posts the generator and the refiner write: one that passes every
\* check, a stub that is too short and has neither hashtag nor emoji, one
\* that is too long with too many hashtags, and the empty output
DraftTexts ==
    {Post(3, 1, 1299), Post(0, 0, 1), Post(11, 3, 3001), <<>>}

NoReview ==
    [called |-> FALSE, result |-> NoRet, prose |-> {}]

\* The phrases of the refiner's exit detection that occur in a string the
\* exit_loop tool returns
PhrasesIn(str) ==
    CASE str = "Refinement loop will exit" -> {"will exit"}
      [] str = "Post quality is acceptable" -> {"quality is acceptable"}
      [] OTHER -> {}

\* What the reviewer's own prose may hold of those phrases
ProseChoices == {{}, {"ready"}}

\* What PostRefiner reads of a review: the call of the exit_loop tool, the
\* dictionary it returned, and the reviewer's prose
Transcript(rv) ==
    rv.prose \cup
        (IF rv.called
         THEN {"exit_loop"} \cup PhrasesIn(rv.result.message)
                  \cup PhrasesIn(rv.result.reason)
         ELSE {})

\* PostRefiner, task 3 and task 8: the phrases that mean the reviewer wants
\* to exit
exit_phrases ==
    {"exit_loop", "exit the loop", "proceed to exit", "will exit",
     "quality is acceptable", "ready", "no changes needed", "post is fine"}

ExitConditionDetected(rv) == Transcript(rv) \cap exit_phrases # {}

\* A refiner that rewrites the post whatever the review says
RefinerOutputs_IgnoresExit(d, rv) == DraftTexts

\* PostRefiner, tasks 4 and 5: the posts it may output for the current post d
\* after review rv
RefinerOutputs(d, rv) ==
    IF ExitConditionDetected(rv) THEN {d} ELSE DraftTexts

\* Whether the event of an exit_loop call carries actions.escalate: the tool
\* returns its dictionary and sets nothing else
Escalates(result) == FALSE

PipelineInit ==
    /\ pc = sub_agents[1]
    /\ times_looped = 0
    /\ draft = <<>>
    /\ history = <<>>
    /\ review = NoReview
    /\ reviews = 0
    /\ accepts = 0
    /\ exitedEarly = FALSE
    /\ ran = <<>>
    /\ posts = <<>>
    /\ post_versions = <<>>

\* An agent has ended: ok, with its tool reporting success = False
\* ("tool_error"), or by an exception ("raised")
Ended(agent, outcome) == [agent |-> agent, outcome |-> outcome]

\* InputProcessorAgent, StyleAnalyzerAgent: they write no post and no table
RunStage ==
    /\ pc \in {"InputProcessorAgent", "StyleAnalyzerAgent"}
    /\ pc' = NextAgent(pc)
    /\ ran' = Append(ran, Ended(pc, "ok"))
    /\ UNCHANGED <<times_looped, draft, history, review, reviews, accepts,
                   exitedEarly, posts, post_versions>>
    /\ UNCHANGED <<callVars, hostVars>>

\* UserPreferenceLoader: load_user_preferences_tool returns the preferences,
\* or success = False when user 1 is missing or the database raised; either
\* way the tool returns and the agent ends
UserPreferenceLoader ==
    /\ pc = "UserPreferenceLoader"
    /\ \E success \in BOOLEAN :
          ran' = Append(ran, Ended(pc, IF success THEN "ok" ELSE "tool_error"))
    /\ pc' = NextAgent(pc)
    /\ UNCHANGED <<times_looped, draft, history, review, reviews, accepts,
                   exitedEarly, posts, post_versions>>
    /\ UNCHANGED <<callVars, hostVars>>

\* ImageGenerator: generate_image_tool returns the image's path, or catches
\* what went wrong and returns success = False; the agent ends
ImageGenerator ==
    /\ pc = "ImageGenerator"
    /\ \E success \in BOOLEAN :
          ran' = Append(ran, Ended(pc, IF success THEN "ok" ELSE "tool_error"))
    /\ pc' = NextAgent(pc)
    /\ UNCHANGED <<times_looped, draft, history, review, reviews, accepts,
                   exitedEarly, posts, post_versions>>
    /\ UNCHANGED <<callVars, hostVars>>

\* The image that PostFinalizer finds in the state
ImageAvailable == \E i \in 1..Len(ran) : ran[i] = Ended("ImageGenerator", "ok")

\* PostFinalizer: save_post_tool inserts the post (with the image's path when
\* there is one), or catches the database's exception and returns
\* success = False; the agent ends
PostFinalizer ==
    /\ pc = "PostFinalizer"
    /\ \E success \in BOOLEAN :
          /\ ran' = Append(ran, Ended(pc, IF success THEN "ok" ELSE "tool_error"))
          /\ posts' = IF success
                      THEN Append(posts, [content |-> draft,
                                          image_saved |-> ImageAvailable])
                      ELSE posts
    /\ pc' = NextAgent(pc)
    /\ UNCHANGED <<times_looped, draft, history, review, reviews, accepts,
                   exitedEarly, post_versions>>
    /\ UNCHANGED <<callVars, hostVars>>

InitialPostGenerator ==
    /\ pc = "InitialPostGenerator"
    /\ draft' \in DraftTexts
    /\ pc' = NextAgent(pc)
    /\ ran' = Append(ran, Ended(pc, "ok"))
    /\ UNCHANGED <<times_looped, history, review, reviews, accepts, exitedEarly,
                   posts, post_versions>>
    /\ UNCHANGED <<callVars, hostVars>>

\* PostReviewer: runs the three checks on the post, writes its review and
\* either calls exit_loop with the statuses the checks returned or does not
\* call it.  LoopAgent then looks for an escalating event.
PostReviewer ==
    /\ pc = "PostReviewer"
    /\ \E callsExit \in BOOLEAN, rs \in {"", "All quality checks passed"},
          prose \in ProseChoices, tie \in Ties :
          LET cs == count_characters(draft).status
              hs == check_hashtags(draft).status
              es == check_emoji_usage(draft, tie).status
              result == IF callsExit THEN exit_loop(cs, hs, es, rs) ELSE NoRet
          IN  /\ ~callsExit => rs = ""
              /\ review' = [called |-> callsExit, result |-> result,
                            prose |-> prose]
              /\ accepts' = IF callsExit /\ result.exit_loop
                            THEN accepts + 1 ELSE accepts
              /\ IF callsExit /\ Escalates(result)
                 THEN /\ exitedEarly' = TRUE
                      /\ pc' = NextAgent("PostRefinementLoop")
                      /\ ran' = Append(ran, Ended("PostRefinementLoop", "ok"))
                 ELSE /\ exitedEarly' = exitedEarly
                      /\ pc' = "PostRefiner"
                      /\ ran' = ran
    /\ reviews' = reviews + 1
    /\ UNCHANGED <<times_looped, draft, history, posts, post_versions>>
    /\ UNCHANGED <<callVars, hostVars>>

\* A loop in which the post that is passed on stays the one that was
\* reviewed, the revision being noted only
PostRefiner_StaleDraft ==
    /\ pc = "PostRefiner"
    /\ \E revised \in RefinerOutputs(draft, review) :
          history' = Append(history, revised)
    /\ draft' = draft
    /\ times_looped' = times_looped + 1
    /\ IF LoopContinues(times_looped')
       THEN /\ pc' = loop_sub_agents[1]
            /\ ran' = ran
       ELSE /\ pc' = NextAgent("PostRefinementLoop")
            /\ ran' = Append(ran, Ended("PostRefinementLoop", "ok"))
    /\ UNCHANGED <<review, reviews, accepts, exitedEarly, posts, post_versions>>
    /\ UNCHANGED <<callVars, hostVars>>

\* PostRefiner: writes the post again; it is the last sub-agent of the
\* loop, so the pass ends and LoopAgent counts it.  Nothing here (and nothing
\* else in the repository) calls create_post_version.
PostRefiner ==
    /\ pc = "PostRefiner"
    /\ draft' \in RefinerOutputs(draft, review)
    /\ history' = Append(history, draft')
    /\ times_looped' = times_looped + 1
    /\ IF LoopContinues(times_looped')
       THEN /\ pc' = loop_sub_agents[1]
            /\ ran' = ran
       ELSE /\ pc' = NextAgent("PostRefinementLoop")
            /\ ran' = Append(ran, Ended("PostRefinementLoop", "ok"))
    /\ UNCHANGED <<review, reviews, accepts, exitedEarly, posts, post_versions>>
    /\ UNCHANGED <<callVars, hostVars>>

\* A pipeline that catches what a sub-agent raises and goes on with the
\* next stage
AgentRaises_Continues ==
    /\ pc \notin {"Done", "Failed"}
    /\ pc' = NextAgent(IF pc \in LoopAgents THEN "PostRefinementLoop" ELSE pc)
    /\ ran' = Append(ran, Ended(pc, "raised"))
    /\ UNCHANGED <<times_looped, draft, history, review, reviews, accepts,
                   exitedEarly, posts, post_versions>>
    /\ UNCHANGED <<callVars, hostVars>>

\* A loop that takes the post as it is for the revision when PostRefiner
\* raises
AgentRaises_KeepsDraft ==
    /\ pc \notin {"Done", "Failed"}
    /\ ran' = Append(ran, Ended(pc, "raised"))
    /\ IF pc = "PostRefiner"
       THEN /\ history' = Append(history, draft)
            /\ times_looped' = times_looped + 1
            /\ pc' = IF LoopContinues(times_looped')
                     THEN loop_sub_agents[1]
                     ELSE NextAgent("PostRefinementLoop")
       ELSE /\ pc' = "Failed"
            /\ UNCHANGED <<history, times_looped>>
    /\ UNCHANGED <<draft, review, reviews, accepts, exitedEarly, posts,
                   post_versions>>
    /\ UNCHANGED <<callVars, hostVars>>

\* A sub-agent raises (its model call or its tool fails): nothing in the
\* pipeline catches it and the run ends
AgentRaises ==
    /\ pc \notin {"Done", "Failed"}
    /\ pc' = "Failed"
    /\ ran' = Append(ran, Ended(pc, "raised"))
    /\ UNCHANGED <<times_looped, draft, history, review, reviews, accepts,
                   exitedEarly, posts, post_versions>>
    /\ UNCHANGED <<callVars, hostVars>>

---------------------------------------------------------------------------
(* Specifications *)

\* No request to cancel has been made
NoCancel == [signalled |-> FALSE, at |-> <<0, 0, 0>>]

\* The modules that keep a DatabaseManager in a global _db_manager, by the
\* agent they define
DbModules == {"UserPreferenceLoader", "ImageGenerator", "PostFinalizer"}

\* The module-level objects: the pipeline and the three _db_manager
GlobalObjects == {"root_agent"} \cup DbModules

MaxPipelineRuns == 2

RunIds == 1..MaxPipelineRuns

\* _db_manager = None
NoManager == [made_by |-> 0, initialized |-> FALSE]

\* No run has started; each module's _db_manager = None, no global has
\* been used by any run
NoRuns ==
    [stage |-> [r \in RunIds |-> 0],
     db_manager |-> [mod \in DbModules |-> NoManager],
     used_by |-> [g \in GlobalObjects |-> {}]]

\* The two callers of update_user_preference_field that may be under way
\* at once
Callers == {1, 2}

\* A caller that has not called
NotCalling ==
    [at |-> "idle", user_id |-> 0, field |-> "", value |-> PyStr(""),
     current_preferences |-> <<>>, result |-> FALSE,
     history_before |-> 0]

\* The posts and post_images tables after initialize(), no call made
EmptyStore ==
    [posts |-> <<>>, post_images |-> <<>>, calls |-> 0,
     last |-> [op |-> "none", post_id |-> 0, content |-> None,
               image_path |-> None, status |-> None,
               engagement_score |-> None, raised |-> "none",
               result |-> FALSE, image_saved |-> FALSE,
               posts_before |-> <<>>, images_before |-> <<>>]]

\* No call of the service has been made
NoServiceCall ==
    [op |-> "none", user_id |-> 0, field |-> "", value |-> PyStr(""),
     prefs |-> <<>>, result |-> FALSE, existed |-> FALSE, before |-> <<>>,
     users_before |-> <<>>, history_before |-> <<>>]

HostInit ==
    /\ cancel = NoCancel
    /\ conc = NoRuns
    /\ store = EmptyStore
    /\ callers = [c \in Callers |-> NotCalling]
    /\ db = EmptyDb
    /\ svc = [calls |-> 0, last |-> NoServiceCall, prev |-> NoServiceCall]

Init ==
    /\ PipelineInit
    /\ HostInit
    /\ call = NoCall
    /\ ret = NoRet

Next ==
    \/ RunStage
    \/ UserPreferenceLoader
    \/ InitialPostGenerator
    \/ PostReviewer
    \/ PostRefiner
    \/ ImageGenerator
    \/ PostFinalizer
    \/ AgentRaises

\* One run of the pipeline
Spec == Init /\ [][Next]_vars

\* A run in which an agent that can take its step eventually takes one:
\* the runner drives the pipeline until it returns or raises
FairSpec == Spec /\ WF_vars(Next)

\* How far the run has come: the agents that ended, the reviews and the
\* passes that were made
Progress == <<Len(ran), reviews, times_looped>>

\* The host asks for the run to be cancelled while an agent runs.  The
\* pipeline has no operation that takes the request: it is noted here so
\* that what the run does afterwards can be told.
HostCancels ==
    /\ pc \notin {"Done", "Failed"}
    /\ ~cancel.signalled
    /\ cancel' = [signalled |-> TRUE, at |-> Progress]
    /\ UNCHANGED <<pipelineVars, callVars, conc, store, serviceVars>>

CancelNext ==
    \/ HostCancels
    \/ Next

\* One run of the pipeline whose host may ask for it to be cancelled
CancelSpec == Init /\ [][CancelNext]_vars

\* get_db_manager of one module, called by run r: the first call makes the
\* DatabaseManager, initializes it and keeps it in the global; every call
\* returns what the global holds
get_db_manager(global, r) ==
    IF global = NoManager
    THEN [made_by |-> r, initialized |-> TRUE]
    ELSE global

\* The host starts run r on root_agent, the one pipeline object of the
\* module
StartRun(r) ==
    /\ conc.stage[r] = 0
    /\ conc' = [conc EXCEPT !.stage[r] = 1,
                            !.used_by["root_agent"] = @ \cup {r}]
    /\ UNCHANGED <<pipelineVars, callVars, cancel, store, serviceVars>>

\* Run r's agent ends without a call to get_db_manager: the agents that
\* have no database tool, and ImageGenerator when no post_id is passed
RunAgent(r) ==
    /\ conc.stage[r] \in 1..Len(sub_agents)
    /\ sub_agents[conc.stage[r]] \notin {"UserPreferenceLoader", "PostFinalizer"}
    /\ conc' = [conc EXCEPT !.stage[r] = @ + 1]
    /\ UNCHANGED <<pipelineVars, callVars, cancel, store, serviceVars>>

\* Run r's agent calls its tool, which calls its module's get_db_manager
RunAgentWithDb(r) ==
    /\ conc.stage[r] \in 1..Len(sub_agents)
    /\ sub_agents[conc.stage[r]] \in DbModules
    /\ LET mod == sub_agents[conc.stage[r]]
       IN  conc' = [conc EXCEPT
                      !.stage[r] = @ + 1,
                      !.db_manager[mod] = get_db_manager(@, r),
                      !.used_by[mod] = @ \cup {r}]
    /\ UNCHANGED <<pipelineVars, callVars, cancel, store, serviceVars>>

StartsRun == \E r \in RunIds : StartRun(r)

RunsAgent == \E r \in RunIds : RunAgent(r)

RunsAgentWithDb == \E r \in RunIds : RunAgentWithDb(r)

ConcurrentNext ==
    \/ StartsRun
    \/ RunsAgent
    \/ RunsAgentWithDb

\* Runs of root_agent in one process, for different requests, their agents
\* taking turns
ConcurrentSpec == Init /\ [][ConcurrentNext]_vars

\* ---------------------------------------------------------------------
\* Calls of UserPreferenceService, one after the other
\* ---------------------------------------------------------------------

MaxServiceCalls == 3

MaxUserId == 2

MaxClock == 1

UserIdArgs == 1..MaxUserId

PrefsArgs ==
    { <<>>,
      << <<"writing_style", PyStr("formal")>>, <<"tone", PyStr("professional")>> >>,
      << <<"tone", PyStr("analytical")>>, <<"topics", PyList(<<"AI">>)>> >> }

FieldArgs ==
    { <<"writing_style", PyStr("casual")>>,
      <<"tone", PyList(<<"warm", "direct">>)>>,
      <<"language", PyStr("en")>> }

\* The call is done: the database is what it left, and the call is noted
\* with what it returned, whether the user existed and the preferences the
\* user had before it
Served(op, user_id, field, value, prefs, out) ==
    /\ svc.calls < MaxServiceCalls
    /\ db' = out.db
    /\ svc' = [calls |-> svc.calls + 1,
               last |-> [op |-> op, user_id |-> user_id, field |-> field,
                         value |-> value, prefs |-> prefs,
                         result |-> out.result,
                         existed |-> get_user(db, user_id).found,
                         before |-> get_user_preferences(db, user_id),
                         users_before |-> db.users,
                         history_before |-> db.history],
               prev |-> svc.last]
    /\ UNCHANGED <<callVars, cancel, conc, store, callers>>

CreateUser ==
    /\ Len(db.users) < MaxUserId
    /\ \E prefs \in PrefsArgs :
          LET created == create_user(db, prefs)
          IN  Served("create_user", lastrowid(created), "", PyStr(""), prefs,
                     Outcome(created, TRUE))
    /\ UNCHANGED pipelineVars

UpdateUserPreferences ==
    /\ \E user_id \in UserIdArgs, prefs \in PrefsArgs :
          Served("update_user_preferences", user_id, "", PyStr(""), prefs,
                 update_user_preferences(db, user_id, prefs))
    /\ UNCHANGED pipelineVars

UpdateUserPreferenceField ==
    /\ \E user_id \in UserIdArgs, fv \in FieldArgs :
          Served("update_user_preference_field", user_id, fv[1], fv[2], <<>>,
                 update_user_preference_field(db, user_id, fv[1], fv[2]))
    /\ UNCHANGED pipelineVars

SetWritingStyle ==
    /\ \E user_id \in UserIdArgs :
          Served("set_writing_style", user_id, "writing_style",
                 PyStr("storytelling"), <<>>,
                 set_writing_style(db, user_id, "storytelling"))
    /\ UNCHANGED pipelineVars

SetTone ==
    /\ \E user_id \in UserIdArgs :
          Served("set_tone", user_id, "tone", PyStr("inspirational"), <<>>,
                 set_tone(db, user_id, "inspirational"))
    /\ UNCHANGED pipelineVars

SetTopics ==
    /\ \E user_id \in UserIdArgs :
          Served("set_topics", user_id, "topics", PyList(<<"AI", "ML">>), <<>>,
                 set_topics(db, user_id, <<"AI", "ML">>))
    /\ UNCHANGED pipelineVars

SetIndustryTemplate ==
    /\ \E user_id \in UserIdArgs :
          Served("set_industry_template", user_id, "industry_template",
                 PyStr("tech"), <<>>,
                 set_industry_template(db, user_id, "tech"))
    /\ UNCHANGED pipelineVars

LengthArgs == {<<>>, <<150>>}

SetPostLength ==
    /\ \E user_id \in UserIdArgs, min_length \in LengthArgs,
          max_length \in LengthArgs :
          Served("set_post_length", user_id, "post_length", PyStr(""), <<>>,
                 set_post_length(db, user_id, min_length, max_length))
    /\ UNCHANGED pipelineVars

InitializeUserPreferences ==
    /\ \E user_id \in UserIdArgs :
          Served("initialize_user_preferences", user_id, "", PyStr(""), <<>>,
                 initialize_user_preferences(db, user_id))
    /\ UNCHANGED pipelineVars

\* A direct call of DatabaseManager.create_post_version
CreatePostVersion ==
    /\ \E version_number \in 1..2 :
          post_versions' = create_post_version(post_versions, 1,
                                               version_number, Post(0, 0, 1))
    /\ Served("create_post_version", 0, "", PyStr(""), <<>>, Outcome(db, TRUE))
    /\ UNCHANGED <<pc, times_looped, draft, history, review, reviews, accepts,
                   exitedEarly, ran, posts>>

\* A second passes
Tick ==
    /\ db.now < MaxClock
    /\ db' = [db EXCEPT !.now = @ + 1]
    /\ UNCHANGED <<pipelineVars, callVars, cancel, conc, store, svc, callers>>

ServiceNext ==
    \/ CreateUser
    \/ UpdateUserPreferences
    \/ UpdateUserPreferenceField
    \/ SetWritingStyle
    \/ SetTone
    \/ SetTopics
    \/ SetIndustryTemplate
    \/ SetPostLength
    \/ InitializeUserPreferences
    \/ CreatePostVersion
    \/ Tick

\* Calls of the service on one database, starting from the empty tables
ServiceSpec == Init /\ [][ServiceNext]_vars

Call_merge_preferences_with_defaults ==
    /\ call.fn = "merge_preferences_with_defaults"
    /\ ret = NoRet
    /\ ret' = [raised |-> "none",
               merged |-> merge_preferences_with_defaults(call.user_preferences)]
    /\ UNCHANGED <<call, pipelineVars, hostVars>>

\* ---------------------------------------------------------------------
\* Calls of update_user_preference_field under way at once, one step of a
\* call being one use of the database (each on a connection of its own)
\* ---------------------------------------------------------------------

\* The call ends and returns result
Returns(c, result) ==
    callers' = [callers EXCEPT ![c].at = "returned", ![c].result = result]

\* Caller c calls update_user_preference_field(user_id, field, value)
FieldCall_begin(c) ==
    /\ callers[c].at = "idle"
    /\ \E user_id \in UserIdArgs, fv \in FieldArgs :
          callers' = [callers EXCEPT
                         ![c] = [NotCalling EXCEPT
                                    !.at = "get_user", !.user_id = user_id,
                                    !.field = fv[1], !.value = fv[2],
                                    !.history_before =
                                        Len(SelectSeq(db.history,
                                            LAMBDA row : row.user_id = user_id))]]
    /\ UNCHANGED <<pipelineVars, callVars, cancel, conc, store, db, svc>>

\* update_user_preference_field: get_user, and the field is set in the
\* preferences that were read
FieldCall_get_user(c) ==
    /\ callers[c].at = "get_user"
    /\ LET user == get_user(db, callers[c].user_id)
       IN  IF ~user.found
           THEN Returns(c, FALSE)
           ELSE callers' = [callers EXCEPT
                               ![c].at = "update_user_preferences",
                               ![c].current_preferences =
                                   DictSet(preferences(user), callers[c].field,
                                           callers[c].value)]
    /\ UNCHANGED <<pipelineVars, callVars, cancel, conc, store, db, svc>>

\* update_user_preferences: get_user, to see that the user exists
FieldCall_update_user_preferences(c) ==
    /\ callers[c].at = "update_user_preferences"
    /\ IF ~get_user(db, callers[c].user_id).found
       THEN Returns(c, FALSE)
       ELSE callers' = [callers EXCEPT ![c].at = "update_user"]
    /\ UNCHANGED <<pipelineVars, callVars, cancel, conc, store, db, svc>>

\* update_user_preferences: update_user with the whole dictionary
FieldCall_update_user(c) ==
    /\ callers[c].at = "update_user"
    /\ LET updated == update_user(db, callers[c].user_id,
                                  callers[c].current_preferences)
       IN  /\ db' = updated.db
           /\ IF updated.result
              THEN callers' = [callers EXCEPT
                                  ![c].at = "save_preferences_history"]
              ELSE Returns(c, FALSE)
    /\ UNCHANGED <<pipelineVars, callVars, cancel, conc, store, svc>>

\* update_user_preferences: save_preferences_history, and True is returned
FieldCall_save_preferences_history(c) ==
    /\ callers[c].at = "save_preferences_history"
    /\ db' = save_preferences_history(db, callers[c].user_id,
                                      callers[c].current_preferences)
    /\ Returns(c, TRUE)
    /\ UNCHANGED <<pipelineVars, callVars, cancel, conc, store, svc>>

FieldCallBegins == \E c \in Callers : FieldCall_begin(c)

FieldCallGetsUser == \E c \in Callers : FieldCall_get_user(c)

FieldCallChecksUser == \E c \in Callers : FieldCall_update_user_preferences(c)

FieldCallUpdatesUser == \E c \in Callers : FieldCall_update_user(c)

FieldCallSavesHistory ==
    \E c \in Callers : FieldCall_save_preferences_history(c)

InterleavedNext ==
    \/ CreateUser
    \/ FieldCallBegins
    \/ FieldCallGetsUser
    \/ FieldCallChecksUser
    \/ FieldCallUpdatesUser
    \/ FieldCallSavesHistory

\* Users are created, and calls of update_user_preference_field run with
\* their steps interleaved
InterleavedSpec == Init /\ [][InterleavedNext]_vars

\* ---------------------------------------------------------------------
\* Calls on the posts and post_images tables
\* ---------------------------------------------------------------------

MaxStoreCalls == 3

MaxPostId == 2

ContentArgs == {None, "A new post"}

ImagePathArgs == {None, "", "/images/post.png"}

StatusColumnArgs == {None, "draft", "published"}

ScoreArgs == {None, "0.8"}

\* The database operations that may raise in one call
FailingArgs == SUBSET {"create_post", "create_post_image"}

\* PostFinalizer's tool is called on a post
SavePostTool ==
    /\ store.calls < MaxStoreCalls
    /\ Len(store.posts) < MaxPostId
    /\ \E image_path \in ImagePathArgs, status \in {"draft", "published"},
          failing \in FailingArgs :
          LET out == save_post_tool(store.posts, store.post_images,
                                    "The final post", 1, image_path, status,
                                    failing)
          IN  store' = [posts |-> out.rows, post_images |-> out.images,
                        calls |-> store.calls + 1,
                        last |-> [op |-> "save_post_tool",
                                  post_id |-> out.post_id,
                                  content |-> "The final post",
                                  image_path |-> image_path, status |-> status,
                                  engagement_score |-> None,
                                  raised |-> out.raised,
                                  result |-> out.success,
                                  image_saved |-> out.image_saved,
                                  posts_before |-> store.posts,
                                  images_before |-> store.post_images]]
    /\ UNCHANGED <<pipelineVars, callVars, cancel, conc, serviceVars>>

\* A direct call of DatabaseManager.update_post
UpdatePost ==
    /\ store.calls < MaxStoreCalls
    /\ \E post_id \in 1..MaxPostId, content \in ContentArgs,
          image_path \in ImagePathArgs \ {""}, status \in StatusColumnArgs,
          engagement_score \in ScoreArgs :
          LET out == update_post(store.posts, post_id, content, image_path,
                                 status, engagement_score)
          IN  store' = [posts |-> out.rows, post_images |-> store.post_images,
                        calls |-> store.calls + 1,
                        last |-> [op |-> "update_post", post_id |-> post_id,
                                  content |-> content,
                                  image_path |-> image_path, status |-> status,
                                  engagement_score |-> engagement_score,
                                  raised |-> out.raised, result |-> out.result,
                                  image_saved |-> FALSE,
                                  posts_before |-> store.posts,
                                  images_before |-> store.post_images]]
    /\ UNCHANGED <<pipelineVars, callVars, cancel, conc, serviceVars>>

PostsNext ==
    \/ SavePostTool
    \/ UpdatePost

\* Calls of save_post_tool and update_post on one database, one after the
\* other
PostsSpec == Init /\ [][PostsNext]_vars

CallNext ==
    \/ Call_merge_preferences_with_defaults
    \/ Call_count_characters
    \/ Call_check_hashtags
    \/ Call_check_emoji_usage
    \/ Call_exit_loop

CallSpecInit == PipelineInit /\ HostInit /\ CallInit

\* One call of one tool on one input
CallSpec == CallSpecInit /\ [][CallNext]_vars

---------------------------------------------------------------------------
(* Properties of the tools, checked under CallSpec *)

Returned(f) == call.fn = f /\ ret.raised # "not_called"

\* C5: with each status taken from its own axis's vocabulary, exit_loop
\* returns exit_loop = true exactly when the length status is good or
\* long_but_ok, the hashtag status is good or few_hashtags and the emoji
\* status is good or few_emojis.
C5_ExitLoopDecision ==
    (/\ Returned("exit_loop")
     /\ call.character_status \in CharacterStatuses
     /\ call.hashtag_status \in HashtagStatuses
     /\ call.emoji_status \in EmojiStatuses)
    => (ret.exit_loop <=>
            /\ call.character_status \in {"good", "long_but_ok"}
            /\ call.hashtag_status \in {"good", "few_hashtags"}
            /\ call.emoji_status \in {"good", "few_emojis"})

C5_Witness ==
    /\ Returned("exit_loop")
    /\ call.character_status = "long_but_ok"
    /\ call.hashtag_status = "few_hashtags"
    /\ call.emoji_status = "few_emojis"
    /\ ret.exit_loop

\* C6: when exit_loop is called with fewer than its three statuses, it
\* returns exit_loop = false with the reason "incomplete evaluation".
C6_IncompleteEvaluation ==
    (/\ Returned("exit_loop")
     /\ Omitted \in {call.character_status, call.hashtag_status,
                     call.emoji_status})
    => (ret.exit_loop = FALSE /\ ret.reason = "incomplete evaluation")

\* The band of a character count, as the claim C7 words it
LengthBand(n) ==
    CASE n < 1300 -> "too_short"
      [] 1300 <= n /\ n <= 1600 -> "good"
      [] 1600 < n /\ n <= 3000 -> "long_but_ok"
      [] n > 3000 -> "too_long"

\* C7: count_characters reports the character count n of the text and the
\* status of n's band: too_short below 1300, good from 1300 to 1600,
\* long_but_ok above 1600 up to 3000, too_long above 3000.
C7_CountCharactersBands ==
    Returned("count_characters")
    => /\ ret.character_count = len(call.text)
       /\ ret.status = LengthBand(ret.character_count)
       /\ (call.text = <<Run("w", 1299)>> => ret.status = "too_short")
       /\ (call.text = <<Run("w", 1300)>> => ret.status = "good")
       /\ (call.text = <<Run("w", 3000)>> => ret.status = "long_but_ok")
       /\ (call.text = <<Run("w", 3001)>> => ret.status = "too_long")

C7_Witness ==
    /\ Returned("count_characters")
    /\ ret.character_count = 3000
    /\ ret.status = "long_but_ok"

\* The statuses of the code under the names the design gives them
VerdictOf(status) ==
    CASE status = "good" -> "good"
      [] status \in {"too_short", "few_hashtags", "few_emojis"} -> "belowRange"
      [] status \in {"too_long", "too_many"} -> "aboveRange"
      [] status = "long_but_ok" -> "aboveRangeButAcceptable"
      [] status \in {"no_hashtags", "no_emojis"} -> "missing"

\* C8 as stated: the hashtag count c has five bands, missing for 0,
\* belowRange for 1..2, good for 3..5, aboveRangeButAcceptable for 6..10 and
\* aboveRange above 10.
C8_FiveHashtagBands ==
    Returned("check_hashtags")
    => LET c == ret.hashtag_count
       IN  VerdictOf(ret.status) =
               CASE c = 0 -> "missing"
                 [] 1 <= c /\ c <= 2 -> "belowRange"
                 [] 3 <= c /\ c <= 5 -> "good"
                 [] 6 <= c /\ c <= 10 -> "aboveRangeButAcceptable"
                 [] c > 10 -> "aboveRange"

\* C8 as amended: the hashtag count c has four bands, no_hashtags for 0,
\* few_hashtags for 1..2, good for 3..10 and too_many above 10; c counts the
\* '#' that a word character follows.
C8_FourHashtagBands ==
    Returned("check_hashtags")
    => LET c == ret.hashtag_count
       IN  /\ ret.status =
                 CASE c = 0 -> "no_hashtags"
                   [] 1 <= c /\ c <= 2 -> "few_hashtags"
                   [] 3 <= c /\ c <= 10 -> "good"
                   [] c > 10 -> "too_many"
           /\ \A h \in 0..MaxHashtags :
                 call.text = Post(h, 0, 0) => c = h
           \* "# a", "##a" and "a#b"
           /\ (call.text = <<Run("h", 1), Run("s", 1), Run("w", 1)>> => c = 0)
           /\ (call.text = <<Run("h", 2), Run("w", 1)>> => c = 1)
           /\ (call.text = <<Run("w", 1), Run("h", 1), Run("w", 1)>> => c = 1)

C8_Witness ==
    /\ Returned("check_hashtags")
    /\ ret.hashtag_count = 6
    /\ ret.status = "good"

\* C9 as stated: the status of check_emoji_usage is the band of the value
\* it reports, the density rounded to 2 decimals (here in hundredths).
C9_StatusOfReportedDensity ==
    (Returned("check_emoji_usage") /\ ret.raised = "none")
    => ret.status =
           CASE ret.emoji_count = 0 -> "no_emojis"
             [] ret.emoji_count > 0 /\ ret.emoji_density_percent < 50
                  -> "few_emojis"
             [] ret.emoji_count > 0 /\ ret.emoji_density_percent >= 50
                  /\ ret.emoji_density_percent <= 500 -> "good"
             [] ret.emoji_count > 0 /\ ret.emoji_density_percent > 500
                  -> "too_many"

\* C9 as amended: the status of check_emoji_usage is the band of the exact
\* density k / n * 100 (no_emojis for k = 0, few_emojis below 0.5, good from
\* 0.5 to 5, too_many above 5), and the value it reports is within 0.005 of
\* that density (0 for the empty text).
C9_StatusOfExactDensity ==
    (Returned("check_emoji_usage") /\ ret.raised = "none")
    => LET k == ret.emoji_count
           n == len(call.text)
           r == ret.emoji_density_percent
       IN  /\ ret.status =
                 CASE k = 0 -> "no_emojis"
                   [] k > 0 /\ 200 * k < n -> "few_emojis"
                   [] k > 0 /\ 200 * k >= n /\ 100 * k <= 5 * n -> "good"
                   [] k > 0 /\ 100 * k > 5 * n -> "too_many"
           /\ 2 * (r * n - 10000 * k) <= n
           /\ 2 * (10000 * k - r * n) <= n
           /\ (n = 0 => r = 0)

C9_Witness ==
    /\ Returned("check_emoji_usage")
    /\ ret.raised = "none"
    /\ ret.emoji_count = 1
    /\ len(call.text) = 201
    /\ ret.status = "few_emojis"
    /\ ret.emoji_density_percent = 50

\* C10: none of the three evaluators raises, whatever the text; for the
\* empty text they return the count 0 (density 0) with the statuses
\* too_short, no_hashtags and no_emojis.
C10_EvaluatorsNeverRaise ==
    /\ ret.raised \in {"not_called", "none"}
    /\ (Returned("count_characters") /\ call.text = <<>>)
           => (ret.character_count = 0 /\ ret.status = "too_short")
    /\ (Returned("check_hashtags") /\ call.text = <<>>)
           => (ret.hashtag_count = 0 /\ ret.status = "no_hashtags")
    /\ (Returned("check_emoji_usage") /\ call.text = <<>>)
           => /\ ret.emoji_count = 0
              /\ ret.emoji_density_percent = 0
              /\ ret.status = "no_emojis"

C10_Witness ==
    /\ Returned("check_emoji_usage")
    /\ call.text = <<>>
    /\ ret.raised = "none"
    /\ ret.status = "no_emojis"

---------------------------------------------------------------------------
(* Properties of the refinement loop, checked under Spec and FairSpec *)

\* The last review ended with the decision exit_loop = true
ShouldExit == review.called /\ review.result.exit_loop

\* The loop has returned and the pipeline went on
LoopEnded == pc \in {"ImageGenerator", "PostFinalizer", "Done"}

\* C1: the loop is in its terminal state, left early, if and only if the
\* review's decision was exit_loop = true; after such a decision neither
\* PostReviewer nor PostRefiner runs again.
C1_ExitIffShouldExit ==
    pc # "Failed"
    => /\ ShouldExit => (pc \notin LoopAgents /\ exitedEarly)
       /\ exitedEarly => ShouldExit

\* C2: the loop never makes more than max_iterations passes nor more than
\* max_iterations reviews, and once entered it is always left again.
C2_LoopTerminates ==
    /\ [](times_looped <= max_iterations /\ reviews <= max_iterations)
    /\ (pc \in LoopAgents) ~> (pc \notin LoopAgents)

C2_Witness ==
    /\ pc = "ImageGenerator"
    /\ reviews = max_iterations
    /\ times_looped = max_iterations

\* C3: when no review decided to exit, the loop ends after exactly
\* max_iterations reviews and max_iterations revisions, not early, with the
\* post equal to the last of these revisions, and the pipeline goes on.
C3_CapReached ==
    (LoopEnded /\ accepts = 0)
    => /\ exitedEarly = FALSE
       /\ times_looped = max_iterations
       /\ reviews = max_iterations
       /\ Len(history) = max_iterations
       /\ draft = history[max_iterations]

C3_Witness ==
    /\ pc = "ImageGenerator"
    /\ accepts = 0
    /\ Len(history) = max_iterations
    /\ history[1] # history[max_iterations]

StageOf(agent) == IF agent \in LoopAgents THEN "PostRefinementLoop" ELSE agent

\* The order the pipeline is documented to run in
ConfiguredOrder ==
    <<"InputProcessorAgent", "UserPreferenceLoader", "StyleAnalyzerAgent",
      "InitialPostGenerator", "PostRefinementLoop", "ImageGenerator",
      "PostFinalizer">>

PositionOf(stage) ==
    CHOOSE i \in 1..Len(ConfiguredOrder) : ConfiguredOrder[i] = stage

\* C11: the stages that have ended are the first stages of the configured
\* order, each once; the agent that runs belongs to the next stage of that
\* order; the loop runs only when InitialPostGenerator has written the post;
\* the image is made and the post is saved only when the loop has ended; a
\* run that is done has run all seven stages.
C11_StagesInOrder ==
    /\ Len(ran) <= Len(ConfiguredOrder)
    /\ \A i \in 1..Len(ran) : StageOf(ran[i].agent) = ConfiguredOrder[i]
    /\ pc \notin {"Done", "Failed"}
          => /\ Len(ran) < Len(ConfiguredOrder)
             /\ StageOf(pc) = ConfiguredOrder[Len(ran) + 1]
    /\ pc \in LoopAgents
          => /\ ran[Len(ran)] = Ended("InitialPostGenerator", "ok")
             /\ draft \in DraftTexts
    /\ (pc \in {"ImageGenerator", "PostFinalizer"} \/ posts # <<>>)
          => /\ Len(ran) >= PositionOf("PostRefinementLoop")
             /\ ran[PositionOf("PostRefinementLoop")]
                    = Ended("PostRefinementLoop", "ok")
             /\ times_looped = max_iterations \/ exitedEarly
    /\ pc = "Done" => Len(ran) = Len(ConfiguredOrder)

\* A run that went through every stage and saved its post
C11_Witness ==
    /\ pc = "Done"
    /\ Len(ran) = 7
    /\ Len(posts) = 1
    /\ times_looped = max_iterations

\* C12 as stated: a stage that failed, by an exception or by its tool
\* reporting success = False, is the last stage that ran, and unless it is
\* PostFinalizer itself no post is saved.
C12_FailureStopsPipeline ==
    \A i \in 1..Len(ran) :
        ran[i].outcome # "ok"
            => /\ i = Len(ran)
               /\ ran[i].agent # "PostFinalizer" => posts = <<>>

\* C12 amended: a stage that raised is the last stage that ran, the run
\* has failed, and unless the stage is PostFinalizer itself no post is
\* saved; no stage was skipped before it.  (A stage whose tool reports
\* success = False has not raised: the stages after it run.)
C12_RaiseStopsPipeline ==
    \A i \in 1..Len(ran) :
        ran[i].outcome = "raised"
            => /\ i = Len(ran)
               /\ pc = "Failed"
               /\ ran[i].agent # "PostFinalizer" => posts = <<>>
               /\ \A j \in 1..i : StageOf(ran[j].agent) = ConfiguredOrder[j]

\* ImageGenerator raised, after a loader whose tool had reported a failure
C12_Witness ==
    /\ pc = "Failed"
    /\ ran[Len(ran)] = Ended("ImageGenerator", "raised")
    /\ ran[2] = Ended("UserPreferenceLoader", "tool_error")
    /\ posts = <<>>

\* ---------------------------------------------------------------------
\* The recorded versions of the post
\* ---------------------------------------------------------------------

\* C13 as stated: post_versions holds one row for each revision made so
\* far, numbered 1, 2, ... in the order they were made, and the rows of
\* the revisions made earlier are those that were written then.
C13_HistoryTracksRevisions ==
    /\ Len(post_versions) = times_looped
    /\ \A i \in 1..Len(post_versions) :
          /\ post_versions[i].version_number = i
          /\ post_versions[i].content = history[i]

\* C14 as stated: once the loop has made a pass, the post is the content
\* of the newest row of post_versions.
C14_DraftIsLatestVersion ==
    times_looped >= 1
        => /\ post_versions # <<>>
           /\ draft = post_versions[Len(post_versions)].content

\* ---------------------------------------------------------------------
\* Failures of the model call inside the loop
\* ---------------------------------------------------------------------

\* C15 as stated: when PostReviewer's model call fails the loop is not
\* aborted: the run has not failed in PostReviewer.
C15_ReviewFailureTolerated ==
    \A i \in 1..Len(ran) :
        ran[i].agent = "PostReviewer" => ran[i].outcome # "raised"

\* C16: when PostRefiner's model call fails the run has failed there: the
\* pass is not counted, no revision is added for it (the post as it was is
\* not taken for one), the loop has not ended, and neither ImageGenerator
\* nor PostFinalizer has run or saved anything.
C16_RevisionFailureAborts ==
    \A i \in 1..Len(ran) :
        ran[i] = Ended("PostRefiner", "raised")
            => /\ pc = "Failed"
               /\ i = Len(ran)
               /\ Len(history) = times_looped
               /\ reviews = times_looped + 1
               /\ \A j \in 1..Len(ran) :
                     ran[j].agent \notin {"PostRefinementLoop",
                                          "ImageGenerator", "PostFinalizer"}
               /\ posts = <<>>

\* PostRefiner raised in the third pass, after two revisions
C16_Witness ==
    /\ pc = "Failed"
    /\ ran[Len(ran)] = Ended("PostRefiner", "raised")
    /\ times_looped = 2
    /\ Len(history) = 2
    /\ reviews = 3

\* ---------------------------------------------------------------------
\* Cancellation
\* ---------------------------------------------------------------------

\* C17 as stated: once the host has asked for cancellation and the agent
\* that was running then has ended, the run is over: no other agent and no
\* other pass of the loop is started.
C17_CancellationHonoured ==
    (cancel.signalled /\ Progress # cancel.at) => pc \in {"Done", "Failed"}

\* ---------------------------------------------------------------------
\* Runs side by side
\* ---------------------------------------------------------------------

\* C19 as stated: no module-level object (the pipeline, a module's
\* _db_manager) is used by two runs, and no run is handed a
\* DatabaseManager that another run made.
C19_NoSharedMutableState ==
    /\ \A g \in GlobalObjects : Cardinality(conc.used_by[g]) <= 1
    /\ \A mod \in DbModules :
          conc.db_manager[mod] # NoManager
              => conc.used_by[mod] = {conc.db_manager[mod].made_by}

\* ---------------------------------------------------------------------
\* Updates of one preference field
\* ---------------------------------------------------------------------

FieldOps ==
    {"update_user_preference_field", "set_writing_style", "set_tone",
     "set_topics", "set_industry_template"}

\* The preferences user_id has now
StoredPreferences(user_id) == get_user_preferences(db, user_id)

\* C20: after update_user_preference_field or one of its wrappers on a
\* user that existed, the call has returned True, the user's preferences
\* hold the value under the field, their other fields are those the user
\* had before with the values they had, and when set_tone follows a
\* set_writing_style that returned True for the same user both values are
\* stored.
C20_FieldUpdateFrame ==
    LET last == svc.last
        now == StoredPreferences(last.user_id)
    IN  (last.op \in FieldOps /\ last.existed)
            => /\ last.result = TRUE
               /\ DictHas(now, last.field)
               /\ DictGet(now, last.field) = last.value
               /\ DictKeys(now) = DictKeys(last.before) \cup {last.field}
               /\ \A k \in DictKeys(last.before) \ {last.field} :
                     DictGet(now, k) = DictGet(last.before, k)
               /\ (/\ last.op = "set_tone"
                   /\ svc.prev.op = "set_writing_style"
                   /\ svc.prev.user_id = last.user_id
                   /\ svc.prev.result)
                      => /\ DictGet(now, "writing_style") = svc.prev.value
                         /\ DictGet(now, "tone") = last.value

\* A user created with a writing style and a tone, whose writing style and
\* then tone were set: both new values are stored
C20_Witness ==
    /\ svc.last.op = "set_tone"
    /\ svc.prev.op = "set_writing_style"
    /\ svc.prev.user_id = svc.last.user_id
    /\ svc.last.existed
    /\ Len(svc.last.before) = 2
    /\ DictGet(StoredPreferences(svc.last.user_id), "writing_style")
           = PyStr("storytelling")
    /\ DictGet(StoredPreferences(svc.last.user_id), "tone")
           = PyStr("inspirational")

\* ---------------------------------------------------------------------
\* The history of a user's preferences
\* ---------------------------------------------------------------------

\* The history has one more row than before the last call, for user_id and
\* holding prefs
AppendedToHistory(user_id, prefs) ==
    /\ Len(db.history) = Len(svc.last.history_before) + 1
    /\ SubSeq(db.history, 1, Len(svc.last.history_before))
           = svc.last.history_before
    /\ LET row == db.history[Len(db.history)]
       IN  /\ row.user_id = user_id
           /\ ~row.preferences_json.null
           /\ json_loads(row.preferences_json.text) = prefs

\* The rows of the history written for user_id, oldest first
HistoryOf(user_id) ==
    SelectSeq(db.history, LAMBDA row : row.user_id = user_id)

\* C21: update_user_preferences(u, p) that returned True has added to the
\* history exactly one row, for u and holding p, and one that returned
\* False has left the history as it was; create_user has added the one row
\* of the initial preferences when they are not empty, and none otherwise.
C21_HistoryOfWrites ==
    LET last == svc.last
    IN  /\ last.op = "update_user_preferences"
              => IF last.result
                 THEN AppendedToHistory(last.user_id, last.prefs)
                 ELSE db.history = last.history_before
        /\ last.op = "create_user"
              => IF last.prefs # <<>>
                 THEN AppendedToHistory(last.user_id, last.prefs)
                 ELSE db.history = last.history_before

\* A user created with preferences and updated once has two rows; an
\* update of a missing user has just failed
C21_Witness ==
    /\ svc.last.op = "update_user_preferences"
    /\ ~svc.last.result
    /\ svc.prev.op = "update_user_preferences"
    /\ svc.prev.result
    /\ Len(HistoryOf(svc.prev.user_id)) = 2
    /\ Len(db.history) = 2

\* ---------------------------------------------------------------------
\* What a review scores
\* ---------------------------------------------------------------------

\* The statuses the three evaluators give a text
StatusesOf(t) ==
    <<count_characters(t).status, check_hashtags(t).status,
      check_emoji_usage(t, "down").status>>

AcceptableOnAxis ==
    <<{"good", "long_but_ok"}, {"good", "few_hashtags"}, {"good", "few_emojis"}>>

\* The axes on which a text is acceptable
AcceptableAxes(t) == {i \in 1..3 : StatusesOf(t)[i] \in AcceptableOnAxis[i]}

\* C23 as stated: a revision that becomes the post and enters the history
\* is acceptable on every axis on which the post it replaces was.
C23_NoVerdictRegression ==
    [][Len(history') = Len(history) + 1
          => AcceptableAxes(draft) \subseteq AcceptableAxes(draft')]_vars

\* C25 as stated: exit_loop returns exit_loop = true only when each status
\* it judged is acceptable on its own axis.
C25_PerAxisJudgement ==
    (Returned("exit_loop") /\ ret.exit_loop)
        => /\ ret.character_status \in AcceptableOnAxis[1]
           /\ ret.hashtag_status \in AcceptableOnAxis[2]
           /\ ret.emoji_status \in AcceptableOnAxis[3]

\* ---------------------------------------------------------------------
\* Preferences merged with the defaults
\* ---------------------------------------------------------------------

\* The value of min or max that the user's post_length gives, else the
\* default's
ExpectedLength(user_preferences, key, default) ==
    IF /\ DictHas(user_preferences, "post_length")
       /\ DictHas(DictGet(user_preferences, "post_length").items, key)
    THEN DictGet(DictGet(user_preferences, "post_length").items, key)
    ELSE default

\* C24: the dictionary merge_preferences_with_defaults(p) returns has every
\* key of the defaults; under each key p supplies, other than post_length,
\* it has p's value, and under each key p does not supply the default;
\* its post_length has min and max, p's where p gives them and 100 and
\* 3000 where it does not.
C24_MergedWithDefaults ==
    Returned("merge_preferences_with_defaults")
        => LET up == call.user_preferences
               merged == ret.merged
               post_length == DictGet(merged, "post_length").items
           IN  /\ DictKeys(get_default_preferences) \subseteq DictKeys(merged)
               /\ \A k \in DictKeys(up) \ {"post_length"} :
                     DictGet(merged, k) = DictGet(up, k)
               /\ \A k \in DictKeys(get_default_preferences) \ DictKeys(up) :
                     DictGet(merged, k) = DictGet(get_default_preferences, k)
               /\ DictHas(post_length, "min")
               /\ DictHas(post_length, "max")
               /\ DictGet(post_length, "min") = ExpectedLength(up, "min", 100)
               /\ DictGet(post_length, "max") = ExpectedLength(up, "max", 3000)

\* Preferences whose post_length gives min alone: max is the default's
C24_Witness ==
    /\ Returned("merge_preferences_with_defaults")
    /\ DictHas(call.user_preferences, "post_length")
    /\ DictKeys(DictGet(call.user_preferences, "post_length").items) = {"min"}
    /\ DictGet(DictGet(ret.merged, "post_length").items, "min") = 200
    /\ DictGet(DictGet(ret.merged, "post_length").items, "max") = 3000

\* ---------------------------------------------------------------------
\* Posts
\* ---------------------------------------------------------------------

\* The arguments of the last update_post that are not None
Supplied ==
    {c \in {"content", "image_path", "status", "engagement_score"} :
        store.last[c] # None}

\* C26 as stated: update_post on an existing post with an argument that
\* is not None does not raise, returns True, gives each supplied column
\* its argument and leaves the others (published_at apart) as they were;
\* published_at is set when status = 'published' and left otherwise;
\* with no argument it returns False and the table is as before.
C26_UpdatePost ==
    LET last == store.last
        old == last.posts_before[last.post_id]
        new == store.posts[last.post_id]
    IN  (last.op = "update_post" /\ last.post_id \in 1..Len(last.posts_before))
            => IF Supplied = {}
               THEN /\ last.raised = "none"
                    /\ ~last.result
                    /\ store.posts = last.posts_before
               ELSE /\ last.raised = "none"
                    /\ last.result
                    /\ \A c \in Supplied : new[c] = last[c]
                    /\ \A c \in {"user_id", "content", "image_path", "status",
                                  "engagement_score"} \ Supplied :
                          new[c] = old[c]
                    /\ new.published_at =
                          IF last.status = "published"
                          THEN "CURRENT_TIMESTAMP" ELSE old.published_at
                    /\ \A i \in 1..Len(store.posts) :
                          i # last.post_id => store.posts[i] = last.posts_before[i]

\* C27 as stated: save_post_tool has not raised; if it returned success =
\* true the posts table has the row of the returned post_id, made by this
\* call; if it returned image_saved = true a row of post_images is linked
\* to that post_id; if it returned success = false the posts table is as
\* it was before the call.
C27_SavePostTruthful ==
    LET last == store.last
    IN  last.op = "save_post_tool"
            => /\ last.raised = "none"
               /\ last.result
                     => /\ last.post_id = Len(last.posts_before) + 1
                        /\ last.post_id \in 1..Len(store.posts)
                        /\ store.posts[last.post_id].content = last.content
               /\ (last.result /\ last.image_saved)
                     => \E i \in 1..Len(store.post_images) :
                           store.post_images[i].post_id = last.post_id
               /\ ~last.result => store.posts = last.posts_before

\* ---------------------------------------------------------------------
\* The newest entry of the history
\* ---------------------------------------------------------------------

\* C28 as stated: for every user whose history is not empty, the first
\* entry of whatever get_preferences_history returns holds the user's
\* current preferences, also when writes share a changed_at.
C28_NewestHistoryIsCurrent ==
    \A user_id \in 1..Len(db.users) :
        \A entries \in get_preferences_history(db, user_id, 10) :
            entries # <<>>
                => entries[1].preferences = StoredPreferences(user_id)

\* ---------------------------------------------------------------------
\* Field updates under way at once
\* ---------------------------------------------------------------------

\* C29 as stated: two calls of update_user_preference_field for one user
\* and two different fields that have both returned True have both taken
\* effect, however their steps interleaved: the stored preferences hold
\* both new values and the history has the rows of both writes.
C29_BothFieldUpdatesTakeEffect ==
    \A c1, c2 \in Callers :
        (/\ c1 # c2
         /\ callers[c1].at = "returned" /\ callers[c1].result
         /\ callers[c2].at = "returned" /\ callers[c2].result
         /\ callers[c1].user_id = callers[c2].user_id
         /\ callers[c1].field # callers[c2].field)
            => LET user_id == callers[c1].user_id
                   stored == StoredPreferences(user_id)
               IN  /\ \A c \in {c1, c2} :
                         /\ DictHas(stored, callers[c].field)
                         /\ DictGet(stored, callers[c].field) = callers[c].value
                   /\ \A c \in {c1, c2} :
                         \E i \in 1..Len(db.history) :
                             /\ db.history[i].user_id = user_id
                             /\ json_loads(db.history[i].preferences_json.text)
                                    = callers[c].current_preferences
                   /\ Len(HistoryOf(user_id))
                         >= callers[c1].history_before + 1


\* ---------------------------------------------------------------------
\* A user that does not exist
\* ---------------------------------------------------------------------

\* The operations that write the preferences of a user
WritingOps ==
    {"update_user_preferences", "update_user_preference_field",
     "set_post_length", "initialize_user_preferences"}

\* C30: update_user_preferences, update_user_preference_field,
\* set_post_length and initialize_user_preferences called for a user id
\* that does not exist return False and leave the users table and the
\* history as they were, and get_user_preferences gives the empty
\* dictionary for every user id that does not exist.
C30_MissingUser ==
    /\ (svc.last.op \in WritingOps /\ ~svc.last.existed)
          => /\ ~svc.last.result
             /\ db.users = svc.last.users_before
             /\ db.history = svc.last.history_before
    /\ \A user_id \in UserIdArgs \ (1..Len(db.users)) :
          get_user_preferences(db, user_id) = <<>>

\* One user exists and has a history; set_post_length and then
\* initialize_user_preferences have been called for a user that does not
\* exist
C30_Witness ==
    /\ svc.last.op = "initialize_user_preferences"
    /\ ~svc.last.existed
    /\ ~svc.last.result
    /\ svc.prev.op = "set_post_length"
    /\ ~svc.prev.existed
    /\ Len(db.users) = 1
    /\ db.history # <<>>

====
